---- MODULE Spec2Model ----
(***************************************************************************)
(* A model of src/main.py: the in-memory catalog, the cart store CARTS and *)
(* the cart services (add_to_cart, update_cart, checkout, view_cart), the  *)
(* search and FAQ services, and the plan -> act -> reply pipeline that the *)
(* webhook runs for one inbound message.                                   *)
(*                                                                         *)
(* Python values are modelled as follows.                                  *)
(*  - A str is a TLA+ string; the operations that look inside a string     *)
(*    (lower(), ==, `in`) work on its character sequence, Chars(s).        *)
(*  - A value that comes out of the language model's JSON (a field of the  *)
(*    plan) is a tagged record [t, s, n]: see StrVal, IntVal, Null, Missing.     *)
(*  - A dict returned by a service is a record that carries its key set in *)
(*    the field `keys`; a field whose key is not in `keys` holds a default *)
(*    and means nothing.                                                   *)
(*  - A function that can raise returns [carts, ret, exc]; exc is "" when  *)
(*    it returned normally and the exception's class name when it raised.  *)
(***************************************************************************)
EXTENDS Integers, Sequences, FiniteSets, TLC

VARIABLES
    CARTS,   \* the cart store: user id -> list of line items
    last,    \* the record of the latest service call
    pc,      \* where the webhook's handling of the inbound message stands
    state,   \* the AgentState of the message being handled
    error,   \* the exception that left the graph, if one did
    ran,     \* the stages the graph has run for the message, in order
    replies, \* the replies the webhook has returned for the message
    requests, \* the webhook calls in flight at the same time, by slot
    before,  \* the cart store when the first of them arrived
    held     \* the Order of the latest successful checkout, as its caller holds it

vars == <<CARTS, last, pc, state, error, ran, replies, requests, before, held>>

(***************************************************************************)
(* Bounds of the model.                                                    *)
(***************************************************************************)
\* Largest absolute quantity a stored line may reach (Python ints are unbounded).
MaxQty == 2

\* The user ids that send requests.
Users == {"u1", "u2"}

\* The quantities passed to the cart services.
Quantities == {-1, 0, 1}

(***************************************************************************)
(* Strings: each string the model uses, with its characters.               *)
(***************************************************************************)
CharTable ==
       "" :> <<>>
    @@ "p1" :> <<"p", "1">>
    @@ "p2" :> <<"p", "2">>
    @@ "p3" :> <<"p", "3">>
    @@ "Oud Royale" :> <<"O", "u", "d", " ", "R", "o", "y", "a", "l", "e">>
    @@ "Rose Noir" :> <<"R", "o", "s", "e", " ", "N", "o", "i", "r">>
    @@ "Citrus Yuzu" :> <<"C", "i", "t", "r", "u", "s", " ", "Y", "u", "z", "u">>
    @@ "P2" :> <<"P", "2">>
    @@ "yuzu" :> <<"y", "u", "z", "u">>
    @@ "oud" :> <<"o", "u", "d">>
    @@ "s" :> <<"s">>
    @@ "ROSE NOIR" :> <<"R", "O", "S", "E", " ", "N", "O", "I", "R">>
    @@ "nonexistent-xyz" :> <<"n", "o", "n", "e", "x", "i", "s", "t", "e", "n", "t", "-", "x", "y", "z">>
    @@ "hi" :> <<"h", "i">>
    @@ "Remove Oud Royale" :> <<"R", "e", "m", "o", "v", "e", " ", "O", "u", "d", " ", "R", "o", "y", "a", "l", "e">>
    @@ "delete rose noir" :> <<"d", "e", "l", "e", "t", "e", " ", "r", "o", "s", "e", " ", "n", "o", "i", "r">>
    @@ "take out oud royale" :> <<"t", "a", "k", "e", " ", "o", "u", "t", " ", "o", "u", "d", " ", "r", "o", "y", "a", "l", "e">>
    @@ "set it to two" :> <<"s", "e", "t", " ", "i", "t", " ", "t", "o", " ", "t", "w", "o">>
    @@ "remove it and set" :> <<"r", "e", "m", "o", "v", "e", " ", "i", "t", " ", "a", "n", "d", " ", "s", "e", "t">>
    @@ "remove" :> <<"r", "e", "m", "o", "v", "e">>
    @@ "delete" :> <<"d", "e", "l", "e", "t", "e">>
    @@ "take out" :> <<"t", "a", "k", "e", " ", "o", "u", "t">>
    @@ "set" :> <<"s", "e", "t">>
    @@ "only want" :> <<"o", "n", "l", "y", " ", "w", "a", "n", "t">>
    @@ "just want" :> <<"j", "u", "s", "t", " ", "w", "a", "n", "t">>
    @@ "deliver" :> <<"d", "e", "l", "i", "v", "e", "r">>
    @@ "shipping" :> <<"s", "h", "i", "p", "p", "i", "n", "g">>
    @@ "return" :> <<"r", "e", "t", "u", "r", "n">>
    @@ "refund" :> <<"r", "e", "f", "u", "n", "d">>
    @@ "when is shipping" :> <<"w", "h", "e", "n", " ", "i", "s", " ", "s", "h", "i", "p", "p", "i", "n", "g">>
    @@ "2" :> <<"2">>
    @@ "two" :> <<"t", "w", "o">>
    @@ "cheap" :> <<"c", "h", "e", "a", "p">>
    @@ "Oud" :> <<"O", "u", "d">>
    @@ "Amber" :> <<"A", "m", "b", "e", "r">>
    @@ "Spice" :> <<"S", "p", "i", "c", "e">>
    @@ "Rose" :> <<"R", "o", "s", "e">>
    @@ "Patchouli" :> <<"P", "a", "t", "c", "h", "o", "u", "l", "i">>
    @@ "Musk" :> <<"M", "u", "s", "k">>
    @@ "Yuzu" :> <<"Y", "u", "z", "u">>
    @@ "Citrus" :> <<"C", "i", "t", "r", "u", "s">>
    @@ "Green" :> <<"G", "r", "e", "e", "n">>
    @@ "evening" :> <<"e", "v", "e", "n", "i", "n", "g">>
    @@ "Evening, formal" :> <<"E", "v", "e", "n", "i", "n", "g", ",", " ", "f", "o", "r", "m", "a", "l">>
    @@ "Date, evening" :> <<"D", "a", "t", "e", ",", " ", "e", "v", "e", "n", "i", "n", "g">>
    @@ "Daytime, office, summer" :> <<"D", "a", "y", "t", "i", "m", "e", ",", " ", "o", "f", "f", "i", "c", "e", ",", " ", "s", "u", "m", "m", "e", "r">>
    @@ "Unisex" :> <<"U", "n", "i", "s", "e", "x">>
    @@ "Female" :> <<"F", "e", "m", "a", "l", "e">>
    @@ "Male" :> <<"M", "a", "l", "e">>
    @@ "max_price" :> <<"m", "a", "x", "_", "p", "r", "i", "c", "e">>
    @@ "gender" :> <<"g", "e", "n", "d", "e", "r">>
    @@ "occasion" :> <<"o", "c", "c", "a", "s", "i", "o", "n">>
    @@ "notes" :> <<"n", "o", "t", "e", "s">>

Chars(s) == CharTable[s]

UpperLetters == <<"A", "B", "C", "D", "E", "F", "G", "H", "I", "J", "K", "L", "M",
                  "N", "O", "P", "Q", "R", "S", "T", "U", "V", "W", "X", "Y", "Z">>
LowerLetters == <<"a", "b", "c", "d", "e", "f", "g", "h", "i", "j", "k", "l", "m",
                  "n", "o", "p", "q", "r", "s", "t", "u", "v", "w", "x", "y", "z">>

\* One character of str.lower().
LowerChar(c) ==
    IF \E i \in 1..Len(UpperLetters) : UpperLetters[i] = c
    THEN LowerLetters[CHOOSE i \in 1..Len(UpperLetters) : UpperLetters[i] = c]
    ELSE c

\* str.lower(), on the characters of the string.
Lower(cs) == [i \in 1..Len(cs) |-> LowerChar(cs[i])]

\* Python's `a in b` for two strings, on their characters.
Contains(a, b) ==
    \E i \in 0..(Len(b) - Len(a)) : SubSeq(b, i + 1, i + Len(a)) = a

(***************************************************************************)
(* The catalog.                                                            *)
(***************************************************************************)
CATALOG == <<
    [id |-> "p1", name |-> "Oud Royale", price |-> 4800, currency |-> "PKR",
     gender |-> "Unisex", occasion |-> "Evening, formal",
     notes |-> <<"Oud", "Amber", "Spice">>, strength |-> "EDP"],
    [id |-> "p2", name |-> "Rose Noir", price |-> 3900, currency |-> "PKR",
     gender |-> "Female", occasion |-> "Date, evening",
     notes |-> <<"Rose", "Patchouli", "Musk">>, strength |-> "EDT"],
    [id |-> "p3", name |-> "Citrus Yuzu", price |-> 3200, currency |-> "PKR",
     gender |-> "Male", occasion |-> "Daytime, office, summer",
     notes |-> <<"Yuzu", "Citrus", "Green">>, strength |-> "EDT"] >>

(***************************************************************************)
(* Values of the plan's fields.                                            *)
(***************************************************************************)
StrVal(s) == [t |-> "str", s |-> s, n |-> 0]
IntVal(n) == [t |-> "int", s |-> "", n |-> n]
Null == [t |-> "null", s |-> "", n |-> 0]
\* dict.get(key) of a key the dict does not hold, before the default applies.
Missing == [t |-> "missing", s |-> "", n |-> 0]

\* Python's truth value of a field value; dict.get of a missing key is None.
Truthy(v) ==
    CASE v.t = "str" -> v.s # ""
      [] v.t = "int" -> v.n # 0
      [] OTHER -> FALSE

(***************************************************************************)
(* Results.                                                                *)
(***************************************************************************)
NoOrder == [order_id |-> <<>>, items |-> <<>>, total |-> 0, payment |-> ""]

EmptyResult ==
    [keys |-> {}, ok |-> FALSE, error |-> "", cart |-> <<>>, total |-> 0,
     action |-> "", product |-> "", order |-> NoOrder, type |-> "",
     results |-> <<>>, answer |-> "", catalog |-> <<>>]

Returned(carts, ret) == [carts |-> carts, ret |-> ret, exc |-> ""]
Raised(carts, exc) == [carts |-> carts, ret |-> EmptyResult, exc |-> exc]

(***************************************************************************)
(* The cart store.                                                         *)
(***************************************************************************)
\* CARTS.get(user_id, [])
CartOf(carts, user_id) ==
    IF user_id \in DOMAIN carts THEN carts[user_id] ELSE <<>>

\* sum(item["price"] * item["qty"] for item in cart)
RECURSIVE CartTotal(_)
CartTotal(cart) ==
    IF cart = <<>> THEN 0
    ELSE Head(cart).price * Head(cart).qty + CartTotal(Tail(cart))

\* next((x for x in seq if ...), None), given the set of the indices of seq that
\* match: the index of the first match, 0 for None.
FirstIndex(matches) ==
    IF matches = {} THEN 0
    ELSE CHOOSE i \in matches : \A j \in matches : i <= j

\* A faulty variant of the resolution whose substring step only looks for the
\* reference inside the names.
resolve_product_OneWay(product_id) ==
    LET ref == Lower(Chars(product_id))
        byId == FirstIndex({i \in DOMAIN CATALOG : Lower(Chars(CATALOG[i].id)) = ref})
        byName == FirstIndex({i \in DOMAIN CATALOG :
                                 Lower(Chars(CATALOG[i].name)) = ref})
        byPart == FirstIndex({i \in DOMAIN CATALOG :
                                 Contains(ref, Lower(Chars(CATALOG[i].name)))})
    IN  IF byId # 0 THEN byId
        ELSE IF byName # 0 THEN byName
        ELSE byPart

\* The product resolution of add_to_cart and update_cart: the index in CATALOG
\* of the product a reference names, 0 when it names none.
resolve_product(product_id) ==
    LET ref == Lower(Chars(product_id))
        byId == FirstIndex({i \in DOMAIN CATALOG : Lower(Chars(CATALOG[i].id)) = ref})
        byName == FirstIndex({i \in DOMAIN CATALOG :
                                 Lower(Chars(CATALOG[i].name)) = ref})
        byPart == FirstIndex({i \in DOMAIN CATALOG :
                                 \/ Contains(Lower(Chars(CATALOG[i].name)), ref)
                                 \/ Contains(ref, Lower(Chars(CATALOG[i].name)))})
    IN  IF byId # 0 THEN byId
        ELSE IF byName # 0 THEN byName
        ELSE byPart

\* resolve_product of every string of the model, computed once.
Resolved == [s \in DOMAIN CharTable |-> resolve_product(s)]

\* next((item for item in cart if item["id"] == prod["id"]), None), as an index.
FindLine(cart, prod) == FirstIndex({i \in DOMAIN cart : cart[i].id = prod.id})

\* CARTS.setdefault(user_id, [])
WithCart(carts, user_id) ==
    IF user_id \in DOMAIN carts THEN carts ELSE (user_id :> <<>>) @@ carts

\* Faulty variants of the quantity update, which the properties of add_to_cart
\* must tell from it: one that always appends a line, one that always adds to
\* the existing quantity, one that always replaces it.
MergedCart_Appends(cart, ei, prod, qty, set_quantity) ==
    Append(cart, [id |-> prod.id, name |-> prod.name,
                  price |-> prod.price, qty |-> qty])

MergedCart_Adds(cart, ei, prod, qty, set_quantity) ==
    IF ei # 0
    THEN [cart EXCEPT ![ei].qty = @ + qty]
    ELSE Append(cart, [id |-> prod.id, name |-> prod.name,
                       price |-> prod.price, qty |-> qty])

MergedCart_Sets(cart, ei, prod, qty, set_quantity) ==
    IF ei # 0
    THEN [cart EXCEPT ![ei].qty = qty]
    ELSE Append(cart, [id |-> prod.id, name |-> prod.name,
                       price |-> prod.price, qty |-> qty])

\* The quantity update of add_to_cart: the user's cart after it; ei is the index
\* of existing_item, 0 for None.
MergedCart(cart, ei, prod, qty, set_quantity) ==
    IF ei # 0
    THEN IF set_quantity
         THEN [cart EXCEPT ![ei].qty = qty]
         ELSE [cart EXCEPT ![ei].qty = @ + qty]
    ELSE Append(cart, [id |-> prod.id, name |-> prod.name,
                       price |-> prod.price, qty |-> qty])

\* The result of add_to_cart for a reference that names no product.
NotFound ==
    [EmptyResult EXCEPT !.keys = {"ok", "error", "catalog", "exact_pricing"},
                        !.ok = FALSE, !.error = "Product not found",
                        !.catalog = CATALOG]

AddFound(carts, user_id, prod, newcart) ==
    Returned([carts EXCEPT ![user_id] = newcart],
             [EmptyResult EXCEPT !.keys = {"ok", "cart", "added_product"},
                                 !.ok = TRUE, !.cart = newcart, !.product = prod.id])

\* A faulty variant that creates the user's entry before it resolves the product.
AddResolved_CreatesEntry(carts, user_id, pi, qty, set_quantity) ==
    IF pi = 0
    THEN Returned(WithCart(carts, user_id), NotFound)
    ELSE AddFound(WithCart(carts, user_id), user_id, CATALOG[pi],
                  MergedCart(CartOf(carts, user_id),
                             FindLine(CartOf(carts, user_id), CATALOG[pi]),
                             CATALOG[pi], qty, set_quantity))

AddResolved(carts, user_id, pi, qty, set_quantity) ==
    IF pi = 0
    THEN Returned(carts, NotFound)
    ELSE AddFound(WithCart(carts, user_id), user_id, CATALOG[pi],
                  MergedCart(CartOf(carts, user_id),
                             FindLine(CartOf(carts, user_id), CATALOG[pi]),
                             CATALOG[pi], qty, set_quantity))

add_to_cart(carts, user_id, product_id, qty, set_quantity) ==
    IF product_id.t # "str" THEN Raised(carts, "AttributeError")
    ELSE AddResolved(carts, user_id, Resolved[product_id.s], qty, set_quantity)

\* A faulty variant of the update that removes the line only below zero.
UpdatedCart_KeepsZero(cart, ci, prod, qty) ==
    IF qty < 0
    THEN SelectSeq(cart, LAMBDA item : item.id # prod.id)
    ELSE [cart EXCEPT ![ci].qty = qty]

\* The update or removal of update_cart: the user's cart after it; ci is the
\* index of cart_item.
UpdatedCart(cart, ci, prod, qty) ==
    IF qty <= 0
    THEN SelectSeq(cart, LAMBDA item : item.id # prod.id)
    ELSE [cart EXCEPT ![ci].qty = qty]

UpdateFound(carts, user_id, prod, qty, newcart) ==
    Returned([carts EXCEPT ![user_id] = newcart],
             [EmptyResult EXCEPT
                 !.keys = {"ok", "cart", "updated_product", "action"},
                 !.ok = TRUE, !.cart = newcart, !.product = prod.id,
                 !.action = IF qty <= 0 THEN "removed" ELSE "updated"])

\* A faulty variant of update_cart that adds the line it does not find.
UpdateResolved_Upserts(carts, user_id, cart, pi, ci, qty) ==
    IF pi = 0
    THEN Returned(carts,
            [EmptyResult EXCEPT !.keys = {"ok", "error", "cart"},
                                !.ok = FALSE, !.error = "Product not found",
                                !.cart = cart])
    ELSE IF ci = 0
    THEN UpdateFound(carts, user_id, CATALOG[pi], 1,
                     Append(cart, [id |-> CATALOG[pi].id, name |-> CATALOG[pi].name,
                                   price |-> CATALOG[pi].price, qty |-> qty]))
    ELSE UpdateFound(carts, user_id, CATALOG[pi], qty,
                     UpdatedCart(cart, ci, CATALOG[pi], qty))

UpdateResolved(carts, user_id, cart, pi, ci, qty) ==
    IF pi = 0
    THEN Returned(carts,
            [EmptyResult EXCEPT !.keys = {"ok", "error", "cart"},
                                !.ok = FALSE, !.error = "Product not found",
                                !.cart = cart])
    ELSE IF ci = 0
    THEN Returned(carts,
            [EmptyResult EXCEPT !.keys = {"ok", "error", "cart"},
                                !.ok = FALSE, !.error = "Product not in cart",
                                !.cart = cart])
    ELSE UpdateFound(carts, user_id, CATALOG[pi], qty,
                     UpdatedCart(cart, ci, CATALOG[pi], qty))

\* The index in cart of the line for catalog product pi, 0 for none.
LineOf(cart, pi) == IF pi = 0 THEN 0 ELSE FindLine(cart, CATALOG[pi])

update_cart(carts, user_id, product_id, qty) ==
    IF CartOf(carts, user_id) = <<>>
    THEN Returned(carts,
            [EmptyResult EXCEPT !.keys = {"ok", "error"},
                                !.ok = FALSE, !.error = "Cart is empty."])
    ELSE IF product_id.t # "str" THEN Raised(carts, "AttributeError")
    ELSE UpdateResolved(carts, user_id, CartOf(carts, user_id),
                        Resolved[product_id.s],
                        LineOf(CartOf(carts, user_id), Resolved[product_id.s]), qty)

\* A faulty variant of the customer check that does not look at the phone.
CustomerComplete_NoPhone(customer) ==
    Truthy(customer.name) /\ Truthy(customer.address)

\* not customer.get("name") or not customer.get("address") or not customer.get("phone"),
\* negated. customer is [t, name, address, phone]: t = "dict" for a dict, whose
\* fields are values (Missing for a key it does not hold).
CustomerComplete(customer) ==
    Truthy(customer.name) /\ Truthy(customer.address) /\ Truthy(customer.phone)

\* A faulty variant of the clearing that leaves the cart as it is.
ClearedStore_Keeps(carts, user_id) == carts

\* A faulty variant that empties the cart of every user.
ClearedStore_All(carts, user_id) == [u \in DOMAIN carts |-> <<>>]

\* CARTS[user_id] = []
ClearedStore(carts, user_id) == [carts EXCEPT ![user_id] = <<>>]

PlaceOrder(carts, user_id, cart) ==
    Returned(ClearedStore(carts, user_id),
             [EmptyResult EXCEPT
                 !.keys = {"ok", "order"}, !.ok = TRUE,
                 !.order = [order_id |-> <<"ORD", user_id, Len(cart)>>, items |-> cart,
                            total |-> CartTotal(cart),
                            payment |-> "Cash on Delivery"]])

checkout(carts, user_id, customer) ==
    IF CartOf(carts, user_id) = <<>>
    THEN Returned(carts,
            [EmptyResult EXCEPT !.keys = {"ok", "error"},
                                !.ok = FALSE, !.error = "Cart is empty."])
    ELSE IF customer.t # "dict" THEN Raised(carts, "AttributeError")
    ELSE IF ~CustomerComplete(customer)
    THEN Returned(carts,
            [EmptyResult EXCEPT !.keys = {"ok", "error", "cart"},
                                !.ok = FALSE, !.error = "Missing customer information",
                                !.cart = CartOf(carts, user_id)])
    ELSE PlaceOrder(carts, user_id, CartOf(carts, user_id))

ViewOf(carts, cart) ==
    Returned(carts,
        [EmptyResult EXCEPT !.keys = {"ok", "cart", "total"}, !.ok = TRUE,
                            !.cart = cart, !.total = CartTotal(cart)])

\* A faulty variant of view_cart that creates the entry of a user who has none.
view_cart_Setdefault(carts, user_id) ==
    ViewOf(WithCart(carts, user_id), CartOf(carts, user_id))

view_cart(carts, user_id) == ViewOf(carts, CartOf(carts, user_id))

(***************************************************************************)
(* The search and FAQ services.                                            *)
(***************************************************************************)
Digits == <<"0", "1", "2", "3", "4", "5", "6", "7", "8", "9">>
IsDigit(c) == \E i \in 1..Len(Digits) : Digits[i] = c
DigitValue(c) == (CHOOSE i \in 1..Len(Digits) : Digits[i] = c) - 1

RECURSIVE DigitsValue(_)
DigitsValue(cs) ==
    IF cs = <<>> THEN 0
    ELSE DigitsValue(SubSeq(cs, 1, Len(cs) - 1)) * 10 + DigitValue(cs[Len(cs)])

\* int(v): [n, exc]. A str converts when it is an optional sign and digits.
py_int(v) ==
    CASE v.t = "int" -> [n |-> v.n, exc |-> ""]
      [] v.t = "str" ->
            LET cs == Chars(v.s)
                signed == cs # <<>> /\ cs[1] \in {"-", "+"}
                ds == IF signed THEN Tail(cs) ELSE cs
            IN  IF ds # <<>> /\ \A i \in 1..Len(ds) : IsDigit(ds[i])
                THEN [n |-> IF signed /\ cs[1] = "-" THEN 0 - DigitsValue(ds)
                            ELSE DigitsValue(ds),
                      exc |-> ""]
                ELSE [n |-> 0, exc |-> "ValueError"]
      [] OTHER -> [n |-> 0, exc |-> "TypeError"]

\* The notes criterion: a list of values, or whatever else the plan holds there.
NoNotes == [t |-> "missing", s |-> "", n |-> 0, items |-> <<>>]
NotesList(items) == [t |-> "list", s |-> "", n |-> 0, items |-> items]
NotesOther(v) == [t |-> v.t, s |-> v.s, n |-> v.n, items |-> <<>>]

\* The criteria object: t = "dict" for a dict, whose fields are values (Missing
\* for a key it does not hold); t = "str" for a string s; t = "null" for None.
NoCriteria ==
    [t |-> "missing", s |-> "", max_price |-> Missing, gender |-> Missing,
     occasion |-> Missing, notes |-> NoNotes]
EmptyCriteria == [NoCriteria EXCEPT !.t = "dict"]

\* any(n.lower() in [x.lower() for x in item["notes"]] for n in notes), for the
\* elements of notes from index i on: "yes", "no", or the exception raised.
RECURSIVE AnyNote(_, _, _)
AnyNote(notes, i, item) ==
    IF i > Len(notes) THEN "no"
    ELSE IF notes[i].t # "str" THEN "AttributeError"
    ELSE IF \E k \in 1..Len(item.notes) :
                Lower(Chars(item.notes[k])) = Lower(Chars(notes[i].s))
         THEN "yes"
         ELSE AnyNote(notes, i + 1, item)

\* One turn of search_catalog's loop: "keep" (appended), "skip" (continue), or
\* the exception the turn raises.
SearchItem(criteria, item) ==
    LET mp == py_int(criteria.max_price)
        notes == criteria.notes
        any == CASE notes.t = "list" -> AnyNote(notes.items, 1, item)
                 \* a str iterates over its characters; none equals a whole note
                 [] notes.t = "str" ->
                        IF \E i \in 1..Len(Chars(notes.s)), k \in 1..Len(item.notes) :
                              Lower(Chars(item.notes[k])) = Lower(<<Chars(notes.s)[i]>>)
                        THEN "yes" ELSE "no"
                 [] OTHER -> "TypeError"
    IN  IF criteria.max_price.t # "missing" /\ mp.exc # "" THEN mp.exc
        ELSE IF criteria.max_price.t # "missing" /\ item.price > mp.n THEN "skip"
        ELSE IF Truthy(criteria.gender) /\ StrVal(item.gender) # criteria.gender
        THEN "skip"
        ELSE IF Truthy(criteria.occasion) /\ criteria.occasion.t # "str" THEN "TypeError"
        ELSE IF /\ Truthy(criteria.occasion)
                /\ ~Contains(Chars(criteria.occasion.s), Chars(item.occasion))
        THEN "skip"
        ELSE IF notes.t \in {"missing", "null"} THEN "keep"
        ELSE IF notes.t = "list" /\ notes.items = <<>> THEN "keep"
        ELSE IF notes.t = "str" /\ notes.s = "" THEN "keep"
        ELSE IF notes.t = "int" /\ notes.n = 0 THEN "keep"
        ELSE IF any = "yes" THEN "keep"
        ELSE IF any = "no" THEN "skip"
        ELSE any

CriteriaKeys == <<"max_price", "gender", "occasion", "notes">>

\* search_catalog: [results, exc]; results are the ids of the products returned.
search_catalog(criteria) ==
    LET out == [i \in 1..Len(CATALOG) |-> SearchItem(criteria, CATALOG[i])]
        bad == FirstIndex({i \in DOMAIN out : out[i] \notin {"keep", "skip"}})
        ids == [i \in 1..Len(CATALOG) |-> CATALOG[i].id]
        kept == SelectSeq(CATALOG, LAMBDA p : SearchItem(criteria, p) = "keep")
    IN  CASE criteria.t = "dict" ->
                IF bad # 0 THEN [results |-> <<>>, exc |-> out[bad]]
                ELSE [results |-> [i \in 1..Len(kept) |-> kept[i].id], exc |-> ""]
          \* `key in criteria` on a str is a substring test, and indexing it raises
          [] criteria.t = "str" ->
                IF \E k \in 1..Len(CriteriaKeys) :
                      Contains(Chars(CriteriaKeys[k]), Chars(criteria.s))
                THEN [results |-> <<>>, exc |-> "TypeError"]
                ELSE [results |-> ids, exc |-> ""]
          [] OTHER -> [results |-> <<>>, exc |-> "TypeError"]

\* faq_answer: [answer, exc].
faq_answer(question) ==
    IF question.t # "str" THEN [answer |-> "", exc |-> "AttributeError"]
    ELSE
    LET q == Lower(Chars(question.s)) IN
    IF Contains(Chars("deliver"), q) \/ Contains(Chars("shipping"), q)
    THEN [answer |-> "Delivery time is 2-4 business days.", exc |-> ""]
    ELSE IF Contains(Chars("return"), q) \/ Contains(Chars("refund"), q)
    THEN [answer |-> "Returns accepted within 7 days if unopened.", exc |-> ""]
    ELSE [answer |-> "You can ask about delivery, returns, prices, recommendations, or place an order.",
          exc |-> ""]

(***************************************************************************)
(* The records of the model's history.                                     *)
(***************************************************************************)
\* The record of a service call: its arguments, what it returned or raised, and
\* `existing`, the quantity of the line it found for the product (existing_item,
\* cart_item), NoLine when it found none.
NoLine == 0 - 99
NoCustomer == [t |-> "missing", name |-> Missing, address |-> Missing,
               phone |-> Missing]
NoCall == [op |-> "", user |-> "", product_id |-> Missing, qty |-> 0,
           set_quantity |-> FALSE, existing |-> NoLine, follows |-> "",
           customer |-> NoCustomer, ret |-> EmptyResult, exc |-> ""]

\* The exception that left the graph: the stage that raised it and its class.
NoError == [stage |-> "", exc |-> ""]

\* The quantity of the line for the product a reference names, NoLine for none.
ExistingQty(carts, user_id, product_id) ==
    LET pi == IF product_id.t = "str" THEN Resolved[product_id.s] ELSE 0
        cart == CartOf(carts, user_id)
        i == IF pi = 0 THEN 0
             ELSE FindLine(cart, CATALOG[pi])
    IN  IF i = 0 THEN NoLine ELSE cart[i].qty

CallRecord(op, carts, user_id, product_id, qty, set_quantity, r) ==
    [op |-> op, user |-> user_id, product_id |-> product_id, qty |-> qty,
     set_quantity |-> set_quantity,
     existing |-> ExistingQty(carts, user_id, product_id), follows |-> "",
     customer |-> NoCustomer, ret |-> r.ret, exc |-> r.exc]

\* How an add_to_cart call relates to the call before it: "new" when that call
\* was a successful add_to_cart of the same user, product and set_quantity that
\* found no line, "merged" when it found one, "" otherwise.
Follows(prev, op, user_id, product_id, set_quantity) ==
    IF /\ op = "add_to_cart" /\ prev.op = "add_to_cart"
       /\ prev.exc = "" /\ prev.ret.ok
       /\ prev.user = user_id /\ prev.set_quantity = set_quantity
       /\ Resolved[prev.product_id.s] = Resolved[product_id.s]
    THEN IF prev.existing = NoLine THEN "new" ELSE "merged"
    ELSE ""

(***************************************************************************)
(* The pipeline: Planner, Actor, Responder.                                *)
(***************************************************************************)
\* The plan: t = "dict" for a JSON object, whose fields are values (Missing for
\* a key it does not hold); any other t for JSON that is not an object.
NoPlan ==
    [t |-> "missing", intent |-> Missing, criteria |-> NoCriteria,
     product_id |-> Missing, qty |-> Missing, question |-> Missing,
     customer |-> NoCustomer]

\* dict.get(key, default) of a field value.
GetOr(v, default) == IF v.t = "missing" THEN default ELSE v

NoState ==
    [keys |-> {}, user_id |-> "", user_text |-> "", plan |-> NoPlan,
     intent |-> Missing, tool_result |-> EmptyResult, reply |-> ""]

\* llm_plan: [data, exc]. resp is what the model call does: it raises, or it
\* returns a content that is a JSON object (kind "object", parsed as plan), JSON
\* of another type ("not_object", parsed as plan), text that is not JSON
\* ("malformed"), the empty string ("empty") or no content (None: "none").
llm_plan(resp) ==
    IF resp.raises THEN [data |-> NoPlan, exc |-> "APIError"]
    ELSE IF resp.kind \in {"object", "not_object"}
    THEN [data |-> resp.plan, exc |-> ""]
    ELSE [data |-> [NoPlan EXCEPT !.t = "dict", !.intent = StrVal("smalltalk")],
          exc |-> ""]

\* node_plan: [state, exc].
Planned(st, r) ==
    IF r.exc # "" THEN [state |-> st, exc |-> r.exc]
    ELSE IF r.data.t # "dict"
    THEN [state |-> [st EXCEPT !.keys = @ \cup {"plan"}, !.plan = r.data],
          exc |-> "AttributeError"]
    ELSE [state |-> [st EXCEPT !.keys = @ \cup {"plan", "intent"},
                               !.plan = r.data,
                               !.intent = GetOr(r.data.intent, StrVal("smalltalk"))],
          exc |-> ""]

node_plan(st, resp) == Planned(st, llm_plan(resp))

\* The keys node_act adds to a result for context.
\* ", ".join(parts), as the sequence of the pieces of the joined string.
RECURSIVE Joined(_)
Joined(parts) ==
    IF Len(parts) <= 1 THEN parts
    ELSE <<Head(parts), ", ">> \o Joined(Tail(parts))

\* formatted_catalog: every product with its formatted price and notes, the
\* formatted strings given by their pieces.
formatted_catalog ==
    [i \in DOMAIN CATALOG |->
        [product |-> CATALOG[i],
         formatted_price |-> <<CATALOG[i].price, " ", CATALOG[i].currency>>,
         formatted_notes |-> Joined(CATALOG[i].notes)]]

Enriched(ret, more) ==
    [ret EXCEPT !.keys = @ \cup more,
                !.catalog = IF "catalog" \in more THEN formatted_catalog ELSE @]

Context == {"catalog", "exact_pricing", "exact_occasions"}

\* node_act returns [state, carts, exc, call]: the state it returns, the store
\* it leaves, the exception it raises ("" for none), and call, the record of
\* the cart service it invoked (NoCall when it invoked none).
ActDone(st, ret, carts, call) ==
    [state |-> [st EXCEPT !.keys = @ \cup {"tool_result"}, !.tool_result = ret],
     carts |-> carts, exc |-> "", call |-> call]

ActRaise(st, carts, exc, call) ==
    [state |-> st, carts |-> carts, exc |-> exc, call |-> call]

\* state["tool_result"] = result, for the outcome r of a cart service; onFail
\* and always are the keys node_act adds to a failed result and to any result.
ActService(st, carts, r, call, onFail, always) ==
    IF r.exc # "" THEN ActRaise(st, carts, r.exc, call)
    ELSE ActDone(st,
                 Enriched(r.ret, IF r.ret.ok THEN always ELSE always \cup onFail),
                 r.carts, call)

\* The removal override: the first catalog product the text names is removed.
ActOverride(st, carts, p, r) ==
    [state |-> [st EXCEPT !.keys = @ \cup {"intent", "tool_result"},
                          !.intent = StrVal("update_cart"),
                          !.tool_result = r.ret],
     carts |-> r.carts, exc |-> "",
     call |-> CallRecord("update_cart", carts, st.user_id, StrVal(p.id), 0, FALSE, r)]

\* plan.get("criteria", {})
CriteriaOf(plan) ==
    IF plan.criteria.t = "missing" THEN EmptyCriteria ELSE plan.criteria

ActRecommend(st, carts, r) ==
    IF r.exc # "" THEN ActRaise(st, carts, r.exc, NoCall)
    ELSE ActDone(st,
                 [EmptyResult EXCEPT
                     !.keys = {"type", "results", "full_catalog", "exact_pricing",
                               "exact_occasions"},
                     !.type = "search_results", !.results = r.results],
                 carts, NoCall)

ActAddCall(st, carts, pid, qty, set, r) ==
    ActService(st, carts, r,
               CallRecord("add_to_cart", carts, st.user_id, pid, qty, set, r),
               IF set THEN {} ELSE Context, {})

ActUpdateCall(st, carts, pid, qty, r) ==
    ActService(st, carts, r,
               CallRecord("update_cart", carts, st.user_id, pid, qty, FALSE, r),
               {}, {})

\* elif intent == "add_to_cart"; q is int(plan.get("qty", 1)).
ActAdd(st, carts, pid, q) ==
    IF q.exc # "" THEN ActRaise(st, carts, q.exc, NoCall)
    ELSE ActAddCall(st, carts, pid, q.n, FALSE,
                    add_to_cart(carts, st.user_id, pid, q.n, FALSE))

\* The calls of the update_cart branch, once qty is decided.
ActUpdateWith(st, carts, pid, qty, set) ==
    IF set
    THEN ActAddCall(st, carts, pid, qty, TRUE,
                    add_to_cart(carts, st.user_id, pid, qty, TRUE))
    ELSE ActUpdateCall(st, carts, pid, qty,
                       update_cart(carts, st.user_id, pid, qty))

\* elif intent == "update_cart"; removal and set are what the text asks for.
ActUpdate(st, carts, pid, q, removal, set) ==
    IF q.exc # "" THEN ActRaise(st, carts, q.exc, NoCall)
    ELSE ActUpdateWith(st, carts, pid, IF removal THEN 0 ELSE q.n, set)

ActView(st, carts, r) ==
    ActService(st, carts, r,
               CallRecord("view_cart", carts, st.user_id, Missing, 0, FALSE, r),
               {}, Context)

\* plan.get("customer", {})
CustomerOf(plan) ==
    IF plan.customer.t = "missing" THEN [NoCustomer EXCEPT !.t = "dict"]
    ELSE plan.customer

ActCheckout(st, carts, customer, r) ==
    ActService(st, carts, r,
               [CallRecord("checkout", carts, st.user_id, Missing, 0, FALSE, r)
                   EXCEPT !.customer = customer],
               {}, {})

ActFaq(st, carts, r) ==
    IF r.exc # "" THEN ActRaise(st, carts, r.exc, NoCall)
    ELSE ActDone(st,
                 [EmptyResult EXCEPT
                     !.keys = {"type", "answer", "catalog", "exact_pricing"},
                     !.type = "faq_answer", !.answer = r.answer],
                 carts, NoCall)

ActSmalltalk(st, carts) ==
    ActDone(st,
            [EmptyResult EXCEPT
                !.keys = {"type", "catalog", "exact_pricing", "exact_occasions"},
                !.type = "smalltalk"],
            carts, NoCall)

\* `word in user_text`, user_text being the lowered text.
Has(word, user_text) == Contains(Chars(word), user_text)

\* The index of the first catalog product whose lowered name the text holds.
Mentioned(user_text) ==
    FirstIndex({i \in DOMAIN CATALOG :
                   Contains(Lower(Chars(CATALOG[i].name)), user_text)})

\* The dispatch of node_act on the intent, after the override did not apply.
ActIntent(st, carts, intent, plan, user_text) ==
    CASE intent = StrVal("recommend") ->
            ActRecommend(st, carts, search_catalog(CriteriaOf(plan)))
      [] intent = StrVal("add_to_cart") ->
            ActAdd(st, carts, GetOr(plan.product_id, StrVal("")),
                   py_int(GetOr(plan.qty, IntVal(1))))
      [] intent = StrVal("update_cart") ->
            ActUpdate(st, carts, GetOr(plan.product_id, StrVal("")),
                      py_int(GetOr(plan.qty, IntVal(1))),
                      \/ Has("remove", user_text) \/ Has("delete", user_text)
                      \/ Has("take out", user_text),
                      \/ Has("set", user_text) \/ Has("only want", user_text)
                      \/ Has("just want", user_text))
      [] intent = StrVal("view_cart") ->
            ActView(st, carts, view_cart(carts, st.user_id))
      [] intent = StrVal("checkout") ->
            ActCheckout(st, carts, CustomerOf(plan),
                        checkout(carts, st.user_id, CustomerOf(plan)))
      [] intent = StrVal("faq") ->
            ActFaq(st, carts,
                   faq_answer(GetOr(plan.question, StrVal(st.user_text))))
      [] OTHER -> ActSmalltalk(st, carts)

ActDispatch(st, carts, intent, plan, user_text, pi) ==
    IF Has("remove", user_text) /\ pi # 0
    THEN ActOverride(st, carts, CATALOG[pi],
                     update_cart(carts, st.user_id, StrVal(CATALOG[pi].id), 0))
    ELSE ActIntent(st, carts, intent, plan, user_text)

node_act(st, carts) ==
    ActDispatch(st, carts,
                IF "intent" \in st.keys THEN st.intent ELSE StrVal("smalltalk"),
                IF "plan" \in st.keys THEN st.plan ELSE [NoPlan EXCEPT !.t = "dict"],
                Lower(Chars(st.user_text)),
                Mentioned(Lower(Chars(st.user_text))))

\* The text of the Responder's model, whitespace-trimmed.
ResponderText == "model reply"

\* llm_reply / node_reply: [state, exc]. resp is what the model call does: it
\* raises, or it returns a text (kind "text") or no content (None: "none").
node_reply(st, resp) ==
    IF resp.raises THEN [state |-> st, exc |-> "APIError"]
    ELSE IF resp.kind = "none" THEN [state |-> st, exc |-> "AttributeError"]
    ELSE [state |-> [st EXCEPT !.keys = @ \cup {"reply"}, !.reply = ResponderText],
          exc |-> ""]

(***************************************************************************)
(* Direct calls of the cart services.                                      *)
(***************************************************************************)
\* The product references passed to the cart services: an id, a name, a part
\* of a name, and a reference that names no product.
Refs == {"p1", "Rose Noir", "yuzu", "nonexistent-xyz"}

\* What a field of the customer block can hold.
FieldValues == {Missing, Null, StrVal(""), StrVal("x")}

\* The customer blocks passed to checkout: complete, one field defective, empty.
Customers ==
    {c \in [t : {"dict"}, name : FieldValues, address : FieldValues,
            phone : FieldValues] :
        \/ c.name = StrVal("x") /\ c.address = StrVal("x")
        \/ c.name = StrVal("x") /\ c.phone = StrVal("x")
        \/ c.address = StrVal("x") /\ c.phone = StrVal("x")
        \/ c.name = Missing /\ c.address = Missing /\ c.phone = Missing}

\* The webhook calls that can be in flight at the same time, and one of them:
\* where it stands ("none", "awaiting" the form, "done"), its user and text,
\* whether it was in flight together with another, the service call its Actor
\* made and the reply it returned.
Slots == {1, 2}
NoRequest == [at |-> "none", user |-> "", text |-> "", overlapped |-> FALSE,
              call |-> NoCall, error |-> NoError, reply |-> ""]

\* The Order a caller holds: the user it is for, the Order with the lines its
\* items list holds now, and whether that list is still the list object bound
\* to the user in CARTS.
NoHeld == [user |-> "", order |-> NoOrder, shared |-> FALSE]

\* Every stored quantity is within the model's bound.
InBounds(carts) ==
    \A u \in DOMAIN carts : \A i \in 1..Len(carts[u]) :
        carts[u][i].qty \in (0 - MaxQty)..MaxQty

Init ==
    /\ CARTS = << >>
    /\ last = NoCall
    /\ pc = "idle"
    /\ state = NoState
    /\ error = NoError
    /\ ran = <<>>
    /\ replies = <<>>
    /\ requests = [i \in Slots |-> NoRequest]
    /\ before = << >>
    /\ held = NoHeld

\* A call from outside the pipeline: the store and the call's record change.
Stored(call, r) ==
    /\ InBounds(r.carts)
    /\ CARTS' = r.carts
    /\ last' = [call EXCEPT !.follows = Follows(last, call.op, call.user,
                                                call.product_id, call.set_quantity)]
    /\ UNCHANGED <<pc, state, error, ran, replies, requests, before>>

Called(call, r) ==
    /\ Stored(call, r)
    /\ UNCHANGED held

Recorded(op, u, product_id, q, s, c, r) ==
    Called([CallRecord(op, CARTS, u, product_id, q, s, r) EXCEPT !.customer = c], r)

AddToCartCall(u, ref, q, s) ==
    /\ pc = "idle"
    /\ Recorded("add_to_cart", u, StrVal(ref), q, s, NoCustomer,
                add_to_cart(CARTS, u, StrVal(ref), q, s))

UpdateCartCall(u, ref, q) ==
    /\ pc = "idle"
    /\ Recorded("update_cart", u, StrVal(ref), q, FALSE, NoCustomer,
                update_cart(CARTS, u, StrVal(ref), q))

CheckoutCall(u, c) ==
    /\ pc = "idle"
    /\ Recorded("checkout", u, Missing, 0, FALSE, c, checkout(CARTS, u, c))

ViewCartCall(u) ==
    /\ pc = "idle"
    /\ Recorded("view_cart", u, Missing, 0, FALSE, NoCustomer,
                view_cart(CARTS, u))

\* One shopper calls the cart services with every input of the model.
Next ==
    \/ \E ref \in Refs, q \in Quantities, s \in BOOLEAN :
          AddToCartCall("u1", ref, q, s)
    \/ \E ref \in Refs, q \in Quantities : UpdateCartCall("u1", ref, q)
    \/ \E c \in Customers : CheckoutCall("u1", c)
    \/ ViewCartCall("u1")

Spec == Init /\ [][Next]_vars

\* Two shoppers call the cart services, with fewer inputs each.
SharedRefs == {"p1", "Rose Noir", "nonexistent-xyz"}
SharedQuantities == {0, 1}
SharedCustomers ==
    {c \in Customers : c.name = c.address /\ c.address = c.phone}

NextUsers ==
    \/ \E u \in Users, ref \in SharedRefs, q \in SharedQuantities, s \in BOOLEAN :
          AddToCartCall(u, ref, q, s)
    \/ \E u \in Users, ref \in SharedRefs, q \in SharedQuantities :
          UpdateCartCall(u, ref, q)
    \/ \E u \in Users, c \in SharedCustomers : CheckoutCall(u, c)
    \/ \E u \in Users : ViewCartCall(u)

SpecUsers == Init /\ [][NextUsers]_vars

\* One shopper names products in every way the resolution knows: an id and a
\* name in other letter case, a part of a name, a part of two names, the empty
\* string, a sentence that holds a name, and a string that names nothing.
ResolveRefs == {"P2", "ROSE NOIR", "oud", "s", "", "Remove Oud Royale",
                "nonexistent-xyz"}
ResolveQuantities == {0, 1, MaxQty}
CompleteCustomer ==
    [t |-> "dict", name |-> StrVal("x"), address |-> StrVal("x"),
     phone |-> StrVal("x")]

NextResolve ==
    \/ \E ref \in ResolveRefs, q \in ResolveQuantities \ {0} :
          AddToCartCall("u1", ref, q, FALSE)
    \/ \E ref \in ResolveRefs, q \in ResolveQuantities : UpdateCartCall("u1", ref, q)
    \/ CheckoutCall("u1", CompleteCustomer)

SpecResolve == Init /\ [][NextResolve]_vars

\* A faulty variant in which checkout empties the user's list in place.
Rebinds_ClearsInPlace(call) ==
    /\ call.exc = "" /\ call.ret.ok
    /\ call.op = "update_cart" /\ call.qty <= 0

\* The calls that bind a new list object to CARTS[user_id] and leave the old
\* one as it is: a successful checkout (CARTS[user_id] = []) and a removing
\* update_cart (the list comprehension). Every other change of a cart is made
\* in the list object that is bound.
Rebinds(call) ==
    /\ call.exc = "" /\ call.ret.ok
    /\ \/ call.op = "checkout"
       \/ call.op = "update_cart" /\ call.qty <= 0

\* The Order a caller of checkout keeps, after a call that leaves the store
\* carts. order["items"] is the list object that was the user's cart: when the
\* call binds a new list the Order keeps the old lines, and as long as its
\* list stays bound in CARTS it shows what the calls do to it.
HeldAfter(h, call, rebinds, carts) ==
    IF call.op = "checkout" /\ call.exc = "" /\ call.ret.ok
    THEN [user |-> call.user,
          order |-> IF rebinds THEN call.ret.order
                    ELSE [call.ret.order EXCEPT !.items = CartOf(carts, call.user)],
          shared |-> ~rebinds]
    ELSE IF ~h.shared \/ call.user # h.user THEN h
    ELSE IF rebinds THEN [h EXCEPT !.shared = FALSE]
    ELSE [h EXCEPT !.order.items = CartOf(carts, h.user)]

\* A service call whose caller keeps the Order of a successful checkout.
Kept(call, r) ==
    /\ Stored(call, r)
    /\ held' = HeldAfter(held, call, Rebinds(call), r.carts)

\* The calls of a shopper who keeps the Order and goes on shopping.
OrderRefs == {"p1", "Rose Noir"}

AddToCartKept(u, ref, q) ==
    /\ pc = "idle"
    /\ Kept(CallRecord("add_to_cart", CARTS, u, StrVal(ref), q, FALSE,
                        add_to_cart(CARTS, u, StrVal(ref), q, FALSE)),
            add_to_cart(CARTS, u, StrVal(ref), q, FALSE))

UpdateCartKept(u, ref, q) ==
    /\ pc = "idle"
    /\ Kept(CallRecord("update_cart", CARTS, u, StrVal(ref), q, FALSE,
                        update_cart(CARTS, u, StrVal(ref), q)),
            update_cart(CARTS, u, StrVal(ref), q))

CheckoutKept(u, c) ==
    /\ pc = "idle"
    /\ Kept([CallRecord("checkout", CARTS, u, Missing, 0, FALSE, checkout(CARTS, u, c))
                EXCEPT !.customer = c],
            checkout(CARTS, u, c))

ViewCartKept(u) ==
    /\ pc = "idle"
    /\ Kept(CallRecord("view_cart", CARTS, u, Missing, 0, FALSE, view_cart(CARTS, u)),
            view_cart(CARTS, u))

NextOrders ==
    \/ \E ref \in OrderRefs : AddToCartKept("u1", ref, 1)
    \/ \E ref \in OrderRefs, q \in {0, MaxQty} : UpdateCartKept("u1", ref, q)
    \/ \E c \in {CompleteCustomer, NoCustomer} : CheckoutKept("u1", c)
    \/ ViewCartKept("u1")

SpecOrders == Init /\ [][NextOrders]_vars

(***************************************************************************)
(* The webhook: one inbound message through plan, act, reply.              *)
(***************************************************************************)
\* The message texts.
Texts == {"hi", "Remove Oud Royale", "delete rose noir", "take out oud royale",
          "set it to two", "remove it and set"}

DictPlan == [NoPlan EXCEPT !.t = "dict"]
IntentPlan(intent) == [DictPlan EXCEPT !.intent = StrVal(intent)]

\* The product_id and qty fields of the cart plans.
CartFields ==
    ({StrVal("p1")} \X {Missing, IntVal(0), IntVal(0 - 1), IntVal(2), Null,
                        StrVal("2"), StrVal("two")})
    \cup ({StrVal("Rose Noir"), StrVal("nonexistent-xyz"), Null, Missing}
          \X {Missing})

CartPlans(intent) ==
    {[IntentPlan(intent) EXCEPT !.product_id = f[1], !.qty = f[2]] : f \in CartFields}

RecommendPlans ==
    {[IntentPlan("recommend") EXCEPT !.criteria = c] :
        c \in {NoCriteria,
               [NoCriteria EXCEPT !.t = "null"],
               [NoCriteria EXCEPT !.t = "str", !.s = "cheap"],
               [EmptyCriteria EXCEPT !.max_price = IntVal(4000)],
               [EmptyCriteria EXCEPT !.max_price = IntVal(0)],
               [EmptyCriteria EXCEPT !.max_price = Null],
               [EmptyCriteria EXCEPT !.gender = StrVal("Male"),
                                     !.occasion = StrVal("")],
               [EmptyCriteria EXCEPT !.max_price = IntVal(4000),
                                     !.occasion = StrVal("evening"),
                                     !.notes = NotesList(<<>>)],
               [EmptyCriteria EXCEPT !.max_price = StrVal("cheap")],
               [EmptyCriteria EXCEPT !.notes = NotesList(<<StrVal("oud")>>)]}}

CheckoutPlans ==
    {[IntentPlan("checkout") EXCEPT !.customer = c] :
        c \in {NoCustomer,
               [NoCustomer EXCEPT !.t = "null"],
               [t |-> "dict", name |-> StrVal("x"), address |-> StrVal("x"),
                phone |-> StrVal("x")],
               [t |-> "dict", name |-> StrVal("x"), address |-> StrVal("x"),
                phone |-> Missing]}}

FaqPlans ==
    {[IntentPlan("faq") EXCEPT !.question = q] :
        q \in {Missing, Null, StrVal("when is shipping")}}

\* The JSON objects the model returns as plans.
Plans ==
    CartPlans("add_to_cart") \cup CartPlans("update_cart") \cup RecommendPlans
    \cup CheckoutPlans \cup FaqPlans
    \cup {IntentPlan("view_cart"), IntentPlan("smalltalk"), IntentPlan("dance"),
          DictPlan, [DictPlan EXCEPT !.intent = Null]}

\* What the Planner's model call does.
PlannerResponses ==
    {[raises |-> TRUE, kind |-> "none", plan |-> NoPlan]}
    \cup {[raises |-> FALSE, kind |-> "object", plan |-> p] : p \in Plans}
    \cup {[raises |-> FALSE, kind |-> "not_object", plan |-> [NoPlan EXCEPT !.t = "list"]]}
    \cup {[raises |-> FALSE, kind |-> k, plan |-> NoPlan] :
            k \in {"malformed", "empty", "none"}}

\* What the Responder's model call does.
ResponderResponses ==
    {[raises |-> TRUE, kind |-> "none"], [raises |-> FALSE, kind |-> "none"],
     [raises |-> FALSE, kind |-> "text"]}

\* whatsapp_webhook builds the AgentState and invokes the graph.
Receive(u, text) ==
    /\ pc = "idle"
    /\ pc' = "plan"
    /\ state' = [NoState EXCEPT !.keys = {"user_id", "user_text"},
                                !.user_id = u, !.user_text = text]
    /\ last' = NoCall
    /\ error' = NoError
    /\ ran' = <<>>
    /\ replies' = <<>>
    /\ UNCHANGED <<CARTS, requests, before, held>>

\* A faulty variant of the graph's step that runs a stage again when it raised.
Advanced_Retries(exc, next) ==
    /\ ran' = Append(ran, pc)
    /\ pc' = IF exc = "" THEN next ELSE pc
    /\ error' = NoError
    /\ UNCHANGED <<replies, requests, before, held>>

\* The graph ran the stage it stood at, which returned or raised: on return it
\* follows the stage's edge, on an exception it is left (no node is retried).
Advanced(exc, next) ==
    /\ ran' = Append(ran, pc)
    /\ pc' = IF exc = "" THEN next ELSE "failed"
    /\ error' = IF exc = "" THEN NoError ELSE [stage |-> pc, exc |-> exc]
    /\ UNCHANGED <<replies, requests, before, held>>

\* A stage that leaves the store alone returned or raised.
Staged(r, next) ==
    /\ state' = r.state
    /\ Advanced(r.exc, next)
    /\ UNCHANGED <<CARTS, last>>

NodePlan(resp) ==
    /\ pc = "plan"
    /\ Staged(node_plan(state, resp), "act")

Acted(r) ==
    /\ InBounds(r.carts)
    /\ CARTS' = r.carts
    /\ state' = r.state
    /\ last' = r.call
    /\ Advanced(r.exc, "reply")

NodeAct ==
    /\ pc = "act"
    /\ Acted(node_act(state, CARTS))

NodeReply(resp) ==
    /\ pc = "reply"
    /\ Staged(node_reply(state, resp), "end")

Fallback == "Sorry, I had trouble processing that."
Apology ==
    "Sorry, I'm having technical difficulties. Please try again in a moment."

\* A faulty variant of the webhook's reply that shows the exception to the user.
ReplyOf_RawError(st, err) ==
    IF err.exc # "" THEN err.exc
    ELSE IF "reply" \in st.keys THEN st.reply
    ELSE Fallback

\* The text of the message the webhook returns: result.get("reply", ...) when
\* the graph returned, the apology of the except branch when it raised.
ReplyOf(st, err) ==
    IF err.exc # "" THEN Apology
    ELSE IF "reply" \in st.keys THEN st.reply
    ELSE Fallback

\* The webhook returns the reply; the AgentState is discarded.
Respond ==
    /\ pc \in {"end", "failed"}
    /\ pc' = "idle"
    /\ state' = NoState
    /\ replies' = Append(replies, ReplyOf(state, error))
    /\ UNCHANGED <<CARTS, last, error, ran, requests, before, held>>

NextAgent ==
    \/ \E text \in Texts : Receive("u1", text)
    \/ \E resp \in PlannerResponses : NodePlan(resp)
    \/ NodeAct
    \/ \E resp \in ResponderResponses : NodeReply(resp)
    \/ Respond

SpecAgent == Init /\ [][NextAgent]_vars

(***************************************************************************)
(* Webhook calls in flight at the same time.  whatsapp_webhook is a        *)
(* coroutine on the server's event loop: it suspends once, at               *)
(* "await request.form()", and from there to its return it runs without    *)
(* suspension (app_graph.invoke and both model calls are synchronous       *)
(* calls).  While a call awaits its form, other calls arrive and run.      *)
(***************************************************************************)
\* app_graph.invoke(state) as one run of plan, act and reply over the store:
\* [state, carts, call, error], where error is the exception that left the
\* graph, if any.
InvokeReply(a, r) ==
    [state |-> r.state, carts |-> a.carts, call |-> a.call,
     error |-> IF r.exc = "" THEN NoError ELSE [stage |-> "reply", exc |-> r.exc]]

InvokeAct(a, rresp) ==
    IF a.exc # ""
    THEN [state |-> a.state, carts |-> a.carts, call |-> a.call,
          error |-> [stage |-> "act", exc |-> a.exc]]
    ELSE InvokeReply(a, node_reply(a.state, rresp))

InvokePlan(p, carts, rresp) ==
    IF p.exc # ""
    THEN [state |-> p.state, carts |-> carts, call |-> NoCall,
          error |-> [stage |-> "plan", exc |-> p.exc]]
    ELSE InvokeAct(node_act(p.state, carts), rresp)

app_graph_invoke(st, carts, presp, rresp) ==
    InvokePlan(node_plan(st, presp), carts, rresp)

\* A faulty variant in which a call works on the store as it was before the
\* calls in flight arrived, and writes that back.
StoreRead_Stale(current, earlier) == earlier

\* The store a call reads and writes: the services read CARTS when they run,
\* after the await, never a copy taken earlier.
StoreRead(current, earlier) == current

\* The plans of the calls in flight.
RequestPlans ==
    {[IntentPlan(f[1]) EXCEPT !.product_id = f[2], !.qty = f[3]] :
        f \in {<<"add_to_cart", StrVal("p1"), Missing>>,
               <<"add_to_cart", StrVal("p1"), Null>>,
               <<"update_cart", StrVal("p1"), IntVal(0)>>,
               <<"update_cart", StrVal("p1"), IntVal(2)>>,
               <<"view_cart", Missing, Missing>>}}
    \cup {[IntentPlan("checkout") EXCEPT !.customer =
              [t |-> "dict", name |-> StrVal("x"), address |-> StrVal("x"),
               phone |-> StrVal("x")]]}

\* The texts of the calls in flight: one that triggers the removal override.
RequestTexts == {"hi", "Remove Oud Royale"}

RequestPlanners ==
    {[raises |-> TRUE, kind |-> "none", plan |-> NoPlan]}
    \cup {[raises |-> FALSE, kind |-> "object", plan |-> p] : p \in RequestPlans}

\* A call arrives and awaits its form.  The first call in flight fixes the
\* store the calls in flight started from.
Arrive(i, u, text) ==
    /\ requests[i].at = "none"
    /\ \A j \in Slots : requests[j].at # "done"
    /\ requests' =
          [j \in Slots |->
              IF j = i
              THEN [NoRequest EXCEPT
                       !.at = "awaiting", !.user = u, !.text = text,
                       !.overlapped = \E k \in Slots : requests[k].at = "awaiting"]
              ELSE IF requests[j].at = "awaiting"
              THEN [requests[j] EXCEPT !.overlapped = TRUE]
              ELSE requests[j]]
    /\ before' = IF \A j \in Slots : requests[j].at = "none" THEN CARTS ELSE before
    /\ UNCHANGED <<CARTS, last, pc, state, error, ran, replies, held>>

\* The call's run from the form to its return.
Handled(i, r) ==
    /\ InBounds(r.carts)
    /\ CARTS' = r.carts
    /\ requests' = [requests EXCEPT ![i] =
                       [@ EXCEPT !.at = "done", !.call = r.call, !.error = r.error,
                                 !.reply = ReplyOf(r.state, r.error)]]
    /\ UNCHANGED <<last, pc, state, error, ran, replies, before, held>>

\* The event loop resumes a call whose form is there; the call runs the graph
\* and returns its reply.
Handle(i, presp, rresp) ==
    /\ requests[i].at = "awaiting"
    /\ Handled(i, app_graph_invoke(
                      [NoState EXCEPT !.keys = {"user_id", "user_text"},
                                      !.user_id = requests[i].user,
                                      !.user_text = requests[i].text],
                      StoreRead(CARTS, before), presp, rresp))

\* The calls in flight have all returned.
Settle ==
    /\ \A i \in Slots : requests[i].at # "awaiting"
    /\ \E i \in Slots : requests[i].at = "done"
    /\ requests' = [i \in Slots |-> NoRequest]
    /\ UNCHANGED <<CARTS, last, pc, state, error, ran, replies, before, held>>

NextRequests ==
    \/ \E i \in Slots, u \in Users, text \in RequestTexts : Arrive(i, u, text)
    \/ \E i \in Slots, presp \in RequestPlanners, rresp \in ResponderResponses :
          Handle(i, presp, rresp)
    \/ Settle

\* The event loop resumes every call whose form has arrived.
SpecRequests == Init /\ [][NextRequests]_vars /\ WF_vars(NextRequests)

(***************************************************************************)
(* The properties of the cart store and of the pipeline.                   *)
(***************************************************************************)
\* The id of the catalog product a string reference resolves to.
ProductOf(product_id) == CATALOG[Resolved[product_id.s]].id

\* The lines of a cart for other products than id, in order.
Others(cart, id) == SelectSeq(cart, LAMBDA item : item.id # id)

\* The cart holds exactly one line for the product, and it has this quantity.
OneLine(cart, id, qty) ==
    \E i \in 1..Len(cart) :
        /\ cart[i].id = id
        /\ cart[i].qty = qty
        /\ \A j \in 1..Len(cart) : cart[j].id = id => j = i

\* The sum of price * qty over the lines of a cart.
RECURSIVE LinesTotal(_)
LinesTotal(cart) ==
    IF cart = <<>> THEN 0
    ELSE LinesTotal(SubSeq(cart, 1, Len(cart) - 1))
         + cart[Len(cart)].price * cart[Len(cart)].qty

\* C1: in every reachable state, the cart of every user holds at most one line
\* item per product id.
C1_OneLinePerProduct ==
    \A u \in DOMAIN CARTS : \A i, j \in 1..Len(CARTS[u]) :
        CARTS[u][i].id = CARTS[u][j].id => i = j

\* An add_to_cart found the product's line in a cart of two lines and merged
\* into it, while the other user holds a cart too.
C1_Witness ==
    /\ last.op = "add_to_cart" /\ last.exc = "" /\ last.ret.ok
    /\ last.existing # NoLine
    /\ Len(CARTS[last.user]) = 2
    /\ \E v \in DOMAIN CARTS : v # last.user /\ CARTS[v] # <<>>

\* C2: whatever messages the Actor processes, every quantity stored in the cart
\* store is at least 1.
C2_QuantitiesPositive ==
    \A u \in DOMAIN CARTS : \A i \in 1..Len(CARTS[u]) : CARTS[u][i].qty >= 1

\* C3: after a successful checkout the user's view_cart returns an empty cart
\* and total 0; a checkout on an empty or never-created cart returns ok = false
\* and leaves the whole cart store unchanged.
C3_Checkout ==
    [][last'.op = "checkout" =>
        /\ last'.ret.ok =>
              /\ view_cart(CARTS', last'.user).ret.cart = <<>>
              /\ view_cart(CARTS', last'.user).ret.total = 0
        /\ CartOf(CARTS, last'.user) = <<>> =>
              /\ ~last'.ret.ok
              /\ CARTS' = CARTS]_vars

\* A checkout succeeded and emptied the user's cart while the other user's
\* cart holds a line.
C3_Witness ==
    /\ last.op = "checkout" /\ last.ret.ok
    /\ last.user \in DOMAIN CARTS /\ CARTS[last.user] = <<>>
    /\ view_cart(CARTS, last.user).ret.total = 0
    /\ \E v \in DOMAIN CARTS : v # last.user /\ CARTS[v] # <<>>

\* A field of the customer block that is absent (no key, or null) or empty.
Defective(v) == v.t \in {"missing", "null"} \/ v = StrVal("")

\* C4: a checkout on a non-empty cart fails without changing the cart store
\* when name, address or phone is absent or empty, and succeeds only when all
\* three are present and non-empty.
C4_CheckoutValidation ==
    [][last'.op = "checkout" /\ CartOf(CARTS, last'.user) # <<>> =>
        /\ \/ Defective(last'.customer.name)
           \/ Defective(last'.customer.address)
           \/ Defective(last'.customer.phone)
           => ~last'.ret.ok /\ CARTS' = CARTS
        /\ last'.ret.ok =>
              /\ ~Defective(last'.customer.name)
              /\ ~Defective(last'.customer.address)
              /\ ~Defective(last'.customer.phone)]_vars

\* A checkout on a non-empty cart was refused for its customer block, and the
\* cart is still there.
C4_Witness ==
    /\ last.op = "checkout" /\ ~last.ret.ok
    /\ last.ret.error = "Missing customer information"
    /\ Defective(last.customer.phone)
    /\ ~Defective(last.customer.name) /\ ~Defective(last.customer.address)
    /\ CartOf(CARTS, last.user) # <<>>
    /\ last.ret.cart = CARTS[last.user]

\* C5: two consecutive add_to_cart calls with set_quantity = true for the same
\* user and product, with quantities q1 then q2, leave exactly one line for
\* the product, of quantity q2, whatever the cart held before.
C5_SetQuantityTwice ==
    [][/\ Follows(last, last'.op, last'.user, last'.product_id,
                  last'.set_quantity) # ""
       /\ last'.set_quantity
       => OneLine(CARTS'[last'.user], ProductOf(last'.product_id), last'.qty)]_vars

\* The second of two such calls replaced the quantity the first one had set by
\* a different one, in a cart that also holds another line.
C5_Witness ==
    /\ last.op = "add_to_cart" /\ last.set_quantity /\ last.follows # ""
    /\ last.existing # last.qty
    /\ Len(CARTS[last.user]) >= 2
    /\ OneLine(CARTS[last.user], ProductOf(last.product_id), last.qty)

\* C6: two consecutive add_to_cart calls without set_quantity for the same
\* user and product, with quantities q1 then q2, starting with no line for
\* the product, leave exactly one line of quantity q1 + q2; the other lines
\* of the cart are unchanged by each call.
C6_AddTwice ==
    [][last'.op = "add_to_cart" /\ last'.exc = "" /\ last'.ret.ok =>
        /\ Others(CARTS'[last'.user], ProductOf(last'.product_id))
              = Others(CartOf(CARTS, last'.user), ProductOf(last'.product_id))
        /\ /\ Follows(last, last'.op, last'.user, last'.product_id,
                      last'.set_quantity) = "new"
           /\ ~last'.set_quantity
           => OneLine(CARTS'[last'.user], ProductOf(last'.product_id),
                      last.qty + last'.qty)]_vars

\* The second of two plain adds of 1 found the line the first had created and
\* made it 2, in a cart that also holds another line.
C6_Witness ==
    /\ last.op = "add_to_cart" /\ ~last.set_quantity /\ last.follows = "new"
    /\ last.existing = 1 /\ last.qty = 1
    /\ Len(CARTS[last.user]) >= 2
    /\ OneLine(CARTS[last.user], ProductOf(last.product_id), 2)

\* C7: update_cart with quantity 0 on a cart that holds a line for the product
\* removes that line and keeps every other line in order; view_cart then
\* shows no entry for the product and the sum of the remaining lines as total.
C7_RemoveAtZero ==
    [][last'.op = "update_cart" /\ last'.qty = 0 /\ last'.existing # NoLine =>
        /\ last'.exc = "" /\ last'.ret.ok
        /\ CARTS'[last'.user]
              = Others(CARTS[last'.user], ProductOf(last'.product_id))
        /\ view_cart(CARTS', last'.user).ret.cart
              = Others(CARTS[last'.user], ProductOf(last'.product_id))
        /\ view_cart(CARTS', last'.user).ret.total
              = LinesTotal(Others(CARTS[last'.user],
                                  ProductOf(last'.product_id)))]_vars

\* An update_cart with quantity 0 removed a line and two other lines remain.
C7_Witness ==
    /\ last.op = "update_cart" /\ last.qty = 0 /\ last.existing # NoLine
    /\ last.ret.ok /\ last.ret.action = "removed"
    /\ Len(CARTS[last.user]) = 2
    /\ Others(CARTS[last.user], ProductOf(last.product_id)) = CARTS[last.user]

\* The user text holds one of the removal keywords of the override and the
\* name of a catalog product, whatever the case of its letters.
RemovalKeywords == {"remove", "delete", "take out"}
RemovalText(user_text) ==
    /\ \E word \in RemovalKeywords : Has(word, user_text)
    /\ Mentioned(user_text) # 0

\* C8: when the user text holds a removal keyword ("remove", "delete",
\* "take out") and a catalog product's name, the Actor sets the intent to
\* update_cart and invokes update_cart for that product with quantity 0, and
\* no other service, whatever intent the Planner produced.
C8_RemovalOverride ==
    pc = "reply" /\ RemovalText(Lower(Chars(state.user_text))) =>
        /\ state.intent = StrVal("update_cart")
        /\ last.op = "update_cart"
        /\ last.qty = 0
        /\ last.product_id
              = StrVal(CATALOG[Mentioned(Lower(Chars(state.user_text)))].id)

\* The response of the model is empty or is not the JSON of a plan.
Malformed(resp) ==
    ~resp.raises /\ resp.kind \in {"empty", "none", "malformed", "not_object"}

SmalltalkPlan == IntentPlan("smalltalk")

\* C9: when the Planner receives an empty or malformed response from the
\* model, the plan becomes intent smalltalk, the Actor takes the default
\* branch and produces a result of type smalltalk without changing the cart
\* store, and neither the Planner nor the Actor raises.
C9_MalformedPlan ==
    [][/\ pc = "plan" =>
             \A resp \in PlannerResponses : Malformed(resp) /\ NodePlan(resp) =>
                /\ pc' = "act"
                /\ state'.plan = SmalltalkPlan
                /\ state'.intent = StrVal("smalltalk")
       /\ pc = "act" /\ state.plan = SmalltalkPlan /\ NodeAct =>
             /\ pc' = "reply"
             /\ state'.tool_result.type = "smalltalk"
             /\ CARTS' = CARTS]_vars

\* C10: the Actor never raises, whatever plan object it is given; every
\* failure is a tool result with ok = false.
C10_ActorNeverRaises == error.stage # "act"

\* The stages of the graph, in the order of its edges.
Stages == <<"plan", "act", "reply">>

\* C11, as stated: every invocation of the pipeline runs plan, act and reply
\* exactly once each, in that order, before it ends, also when a stage's model
\* call fails.
C11_EveryStageRuns == pc \in {"end", "failed"} => ran = Stages

\* C11, amended: the stages run are always a prefix of plan, act, reply, each
\* at most once and none retried; an invocation that ends normally has run all
\* three, and one in which a stage raised ends with that stage, the later
\* stages not run.
C11_StagesInOrder ==
    /\ Len(ran) <= Len(Stages)
    /\ \A i \in 1..Len(ran) : ran[i] = Stages[i]
    /\ pc \in {"plan", "act", "reply"} => pc = Stages[Len(ran) + 1]
    /\ pc = "end" => ran = Stages /\ error = NoError
    /\ pc = "failed" => ran # <<>> /\ error.stage = ran[Len(ran)]

\* An invocation ran the three stages and ended, the Actor having added a line.
C11_Witness ==
    /\ pc = "end" /\ ran = Stages
    /\ "reply" \in state.keys
    /\ last.op = "add_to_cart" /\ last.ret.ok
    /\ CARTS[state.user_id] # <<>>

\* C12: every inbound message ends with exactly one reply to the user: the
\* Responder's text, or the fixed apology when a stage raised; the exception
\* is never the reply.
C12_OneReply ==
    /\ pc # "idle" => replies = <<>>
    /\ pc = "idle" /\ ran # <<>> =>
          /\ Len(replies) = 1
          /\ replies[1] = IF error.exc = "" THEN ResponderText ELSE Apology
          /\ replies[1] # error.exc

\* The Actor raised and the webhook answered the message with the apology.
C12_Witness ==
    /\ pc = "idle" /\ error.stage = "act" /\ error.exc = "TypeError"
    /\ replies = <<Apology>>

\* The product ids of the lines of a cart.
LineIds(cart) == {cart[i].id : i \in 1..Len(cart)}

\* C13: update_cart returns ok = false and leaves the cart store unchanged when
\* the user's cart is empty or absent and when the product has no line in the
\* cart; it never creates a line.
C13_UpdateFails ==
    [][last'.op = "update_cart" =>
        /\ CartOf(CARTS, last'.user) = <<>> \/ last'.existing = NoLine =>
              /\ last'.exc = "" /\ ~last'.ret.ok
              /\ CARTS' = CARTS
        /\ LineIds(CartOf(CARTS', last'.user))
              \subseteq LineIds(CartOf(CARTS, last'.user))]_vars

\* An update_cart for a catalog product was refused on a cart that holds lines
\* of other products only, and the cart is as it was.
C13_Witness ==
    /\ last.op = "update_cart" /\ ~last.ret.ok
    /\ last.ret.error = "Product not in cart"
    /\ last.existing = NoLine
    /\ Len(CARTS[last.user]) = 2
    /\ last.ret.cart = CARTS[last.user]

\* A criteria object of the documented shape: a dict whose max_price is a
\* number, whose gender and occasion are strings and whose notes is a list of
\* strings, each of them possibly absent or null.
WellTyped(criteria) ==
    /\ criteria.t = "dict"
    /\ criteria.max_price.t \in {"missing", "null", "int"}
    /\ criteria.gender.t \in {"missing", "null", "str"}
    /\ criteria.occasion.t \in {"missing", "null", "str"}
    /\ criteria.notes.t \in {"missing", "null", "list"}
    /\ \A i \in 1..Len(criteria.notes.items) : criteria.notes.items[i].t = "str"

\* The product satisfies every constraint the criteria supply; an absent or
\* falsy key supplies none.
Satisfies(criteria, item) ==
    /\ Truthy(criteria.max_price) => item.price <= criteria.max_price.n
    /\ Truthy(criteria.gender) => item.gender = criteria.gender.s
    /\ Truthy(criteria.occasion) =>
          Contains(Chars(criteria.occasion.s), Chars(item.occasion))
    /\ criteria.notes.items # <<>> =>
          \E i \in 1..Len(criteria.notes.items), k \in 1..Len(item.notes) :
             Lower(Chars(criteria.notes.items[i].s)) = Lower(Chars(item.notes[k]))

\* The ids of the products that satisfy the criteria, in catalog order.
Matching(criteria) ==
    [i \in 1..Len(SelectSeq(CATALOG, LAMBDA item : Satisfies(criteria, item))) |->
        SelectSeq(CATALOG, LAMBDA item : Satisfies(criteria, item))[i].id]

\* C14: for every criteria object of the documented shape, search_catalog
\* returns exactly the products that satisfy all supplied constraints, in
\* catalog order, an absent or falsy key (max_price 0 or null included)
\* imposing no constraint; it has no error condition.
C14_SearchResults ==
    /\ pc # "idle" /\ Len(ran) >= 2
    /\ state.intent = StrVal("recommend")
    /\ WellTyped(CriteriaOf(state.plan))
    => /\ error.stage # "act"
       /\ state.tool_result.results = Matching(CriteriaOf(state.plan))

\* The quantity a cart holds of the product a reference names, 0 for no line.
QtyOf(carts, user_id, product_id) ==
    IF ExistingQty(carts, user_id, product_id) = NoLine THEN 0
    ELSE ExistingQty(carts, user_id, product_id)

\* The call in the slot has returned, and its Actor made a successful
\* add_to_cart that adds to the quantity.
PlainAdd(r) ==
    /\ r.at = "done" /\ r.call.op = "add_to_cart"
    /\ r.call.exc = "" /\ r.call.ret.ok /\ ~r.call.set_quantity

\* Two calls that were in flight at the same time each added the same product
\* to the same user's cart.
SimultaneousAdds(a, b) ==
    /\ PlainAdd(a) /\ PlainAdd(b)
    /\ a.overlapped /\ b.overlapped
    /\ a.user = b.user
    /\ Resolved[a.call.product_id.s] = Resolved[b.call.product_id.s]

\* The quantity the two calls left is not what was there plus both increments.
LostUpdate ==
    \E i, j \in Slots :
        /\ i < j
        /\ SimultaneousAdds(requests[i], requests[j])
        /\ QtyOf(CARTS, requests[i].user, requests[i].call.product_id)
             # QtyOf(before, requests[i].user, requests[i].call.product_id)
               + requests[i].call.qty + requests[j].call.qty

\* C15: two add_to_cart calls for the same user that are in flight at the same
\* time can interleave their read-modify-write of one line, so that a state
\* is reached where the line's quantity is not the sum of both increments.
C15_LostUpdateReached == <>LostUpdate

\* C15, as the code has it: the store has no lock, but a webhook call runs
\* from the await of its form to its return without suspension, so the
\* read-modify-write of one add_to_cart never interleaves with another's:
\* after two simultaneous calls the line holds what it held plus both
\* increments.
C15_NoLostUpdate ==
    \A i, j \in Slots :
        (i < j /\ SimultaneousAdds(requests[i], requests[j])) =>
            QtyOf(CARTS, requests[i].user, requests[i].call.product_id)
            = QtyOf(before, requests[i].user, requests[i].call.product_id)
              + requests[i].call.qty + requests[j].call.qty

\* Two calls for one user were awaiting their forms together, the one that
\* arrived second ran first, and each added one of the same product to the
\* cart, which now holds two.
C15_Witness ==
    /\ SimultaneousAdds(requests[1], requests[2])
    /\ requests[1].call.existing = 1 /\ requests[2].call.existing = NoLine
    /\ requests[1].call.qty = 1 /\ requests[2].call.qty = 1
    /\ before = << >>
    /\ OneLine(CARTS[requests[1].user], "p1", 2)

\* C16: view_cart is a pure read: it returns ok, the user's lines (none when
\* the user has no entry) and their total, the sum of price * qty over the
\* lines, 0 for none; it changes no cart and creates no entry.
C16_ViewCartReads ==
    [][last'.op = "view_cart" =>
        /\ last'.exc = "" /\ last'.ret.ok
        /\ last'.ret.cart = CartOf(CARTS, last'.user)
        /\ last'.ret.total = LinesTotal(CartOf(CARTS, last'.user))
        /\ CartOf(CARTS, last'.user) = <<>> => last'.ret.total = 0
        /\ CARTS' = CARTS
        /\ DOMAIN CARTS' = DOMAIN CARTS]_vars

\* view_cart was called for a user who has no entry while another user holds a
\* cart of two lines: it returned no lines and total 0, and the user still has
\* no entry.
C16_Witness ==
    /\ last.op = "view_cart" /\ last.ret.ok
    /\ last.ret.cart = <<>> /\ last.ret.total = 0
    /\ last.user \notin DOMAIN CARTS
    /\ \E v \in DOMAIN CARTS : Len(CARTS[v]) = 2

\* A reference names a product by id, by name, or by substring (the name holds
\* the reference or the reference holds the name), letter case ignored.
MatchesId(ref, p) == Lower(Chars(p.id)) = Lower(Chars(ref))
MatchesName(ref, p) == Lower(Chars(p.name)) = Lower(Chars(ref))
MatchesPart(ref, p) ==
    \/ Contains(Lower(Chars(p.name)), Lower(Chars(ref)))
    \/ Contains(Lower(Chars(ref)), Lower(Chars(p.name)))
Matches(ref, p) == MatchesId(ref, p) \/ MatchesName(ref, p) \/ MatchesPart(ref, p)

\* The strings that name no product of the catalog.
Unmatched ==
    {ref \in DOMAIN CharTable : \A i \in DOMAIN CATALOG : ~Matches(ref, CATALOG[i])}

\* C17: add_to_cart with a reference that matches no catalog product by id,
\* by name or by substring returns ok = false together with the full catalog,
\* and leaves the cart store unchanged: it creates no entry for the user.
C17_AddUnknown ==
    [][(last'.op = "add_to_cart" /\ last'.exc = ""
        /\ last'.product_id.s \in Unmatched) =>
        /\ ~last'.ret.ok
        /\ "catalog" \in last'.ret.keys
        /\ last'.ret.catalog = CATALOG
        /\ CARTS' = CARTS
        /\ DOMAIN CARTS' = DOMAIN CARTS]_vars

\* An add_to_cart for a reference that names no product was refused with the
\* catalog, for a user who has no entry in the store and still has none.
C17_Witness ==
    /\ last.op = "add_to_cart" /\ last.product_id.s = "nonexistent-xyz"
    /\ ~last.ret.ok /\ Len(last.ret.catalog) = Len(CATALOG)
    /\ last.user \notin DOMAIN CARTS
    /\ CARTS # << >>

\* The first of a non-empty set of catalog positions.
Earliest(positions) == CHOOSE i \in positions : \A j \in positions : i <= j

\* The catalog position a reference names: the first product it names by id,
\* else the first it names by name, else the first it names by substring, and
\* 0 when it names none.
NamedBy(ref) ==
    LET ids == {i \in DOMAIN CATALOG : MatchesId(ref, CATALOG[i])}
        names == {i \in DOMAIN CATALOG : MatchesName(ref, CATALOG[i])}
        parts == {i \in DOMAIN CATALOG : MatchesPart(ref, CATALOG[i])}
    IN  IF ids # {} THEN Earliest(ids)
        ELSE IF names # {} THEN Earliest(names)
        ELSE IF parts # {} THEN Earliest(parts)
        ELSE 0

Named == [ref \in DOMAIN CharTable |-> NamedBy(ref)]

\* A call for catalog product p acted on that product and on no other line.
ActedOn(call, p, old, new) ==
    /\ call.ret.ok /\ call.ret.product = p.id
    /\ Others(new, p.id) = Others(old, p.id)
    /\ call.op = "add_to_cart" =>
          OneLine(new, p.id, (IF call.existing = NoLine THEN 0 ELSE call.existing)
                             + call.qty)
    /\ (call.op = "update_cart" /\ call.qty > 0) => OneLine(new, p.id, call.qty)
    /\ (call.op = "update_cart" /\ call.qty <= 0) => p.id \notin LineIds(new)

\* C18: add_to_cart and update_cart resolve a product reference without
\* regard to letter case by id, then by name, then by substring in either
\* direction, taking the first catalog match; "oud" resolves to p1, and
\* add_to_cart(user, "oud", 2) on an empty cart leaves exactly one line, p1
\* with qty 2.
C18_Resolution ==
    [][(last'.op \in {"add_to_cart", "update_cart"} /\ last'.exc = "") =>
        /\ Named["oud"] = 1
        /\ (last'.op = "add_to_cart" /\ Named[last'.product_id.s] = 0) =>
              ~last'.ret.ok /\ last'.ret.error = "Product not found"
        /\ (last'.op = "add_to_cart" /\ Named[last'.product_id.s] # 0) =>
              ActedOn(last', CATALOG[Named[last'.product_id.s]],
                      CartOf(CARTS, last'.user), CartOf(CARTS', last'.user))
        /\ (last'.op = "update_cart" /\ CartOf(CARTS, last'.user) # <<>>) =>
              IF Named[last'.product_id.s] = 0
              THEN ~last'.ret.ok /\ last'.ret.error = "Product not found"
              ELSE IF CATALOG[Named[last'.product_id.s]].id
                         \notin LineIds(CartOf(CARTS, last'.user))
              THEN ~last'.ret.ok /\ last'.ret.error = "Product not in cart"
              ELSE ActedOn(last', CATALOG[Named[last'.product_id.s]],
                           CartOf(CARTS, last'.user), CartOf(CARTS', last'.user))
        /\ (last'.op = "add_to_cart" /\ last'.product_id.s = "oud"
            /\ last'.qty = 2 /\ CartOf(CARTS, last'.user) = <<>>) =>
              CARTS'[last'.user] = <<[id |-> "p1", name |-> "Oud Royale",
                                     price |-> 4800, qty |-> 2]>>]_vars

\* add_to_cart(user, "oud", 2) on an empty cart left one line, p1 with qty 2.
C18_Witness ==
    /\ last.op = "add_to_cart" /\ last.product_id.s = "oud" /\ last.qty = 2
    /\ last.existing = NoLine /\ last.ret.ok /\ last.ret.product = "p1"
    /\ Len(CARTS[last.user]) = 1
    /\ OneLine(CARTS[last.user], "p1", 2)

\* C19: a successful checkout returns an Order whose items are the lines the
\* cart held before the call, whose total is the total view_cart gave before
\* the call, and whose payment is "Cash on Delivery"; the clearing of the cart
\* and the calls made afterwards do not change the Order's items.
C19_Order ==
    [][/\ (last'.op = "checkout" /\ last'.exc = "" /\ last'.ret.ok) =>
            /\ last'.ret.order.items = CartOf(CARTS, last'.user)
            /\ last'.ret.order.items # <<>>
            /\ last'.ret.order.total = view_cart(CARTS, last'.user).ret.total
            /\ last'.ret.order.total = LinesTotal(CartOf(CARTS, last'.user))
            /\ last'.ret.order.payment = "Cash on Delivery"
            /\ held'.user = last'.user
            /\ held'.order = last'.ret.order
       /\ ~(last'.op = "checkout" /\ last'.exc = "" /\ last'.ret.ok) =>
            held' = held]_vars

\* A shopper checked out a cart of two lines, keeps the Order with both lines,
\* and has put a line into the cart again since.
C19_Witness ==
    /\ held.user # "" /\ Len(held.order.items) = 2
    /\ held.order.total = LinesTotal(held.order.items)
    /\ last.op = "add_to_cart" /\ last.user = held.user /\ last.ret.ok
    /\ Len(CARTS[held.user]) = 1

\* C20: a cart operation performed for one user (add_to_cart, update_cart,
\* checkout, view_cart, the removal override included) leaves the cart of every
\* other user as it was, however the requests of different users interleave.
C20_OtherCartsUnchanged ==
    [][\A i \in Slots :
          (requests[i].at = "awaiting" /\ requests'[i].at = "done") =>
              \A v \in Users \ {requests[i].user} :
                  /\ v \in DOMAIN CARTS' <=> v \in DOMAIN CARTS
                  /\ CartOf(CARTS', v) = CartOf(CARTS, v)]_vars

\* The calls of two users were in flight together: the one checked out its
\* cart, the other removed a line by the override, and the cart of the user
\* who checked out is empty while the other user's still holds a line.
C20_Witness ==
    /\ requests[1].at = "done" /\ requests[2].at = "done"
    /\ requests[1].overlapped /\ requests[2].overlapped
    /\ requests[1].user = "u1" /\ requests[2].user = "u2"
    /\ requests[1].call.op = "checkout" /\ requests[1].call.ret.ok
    /\ requests[2].call.op = "update_cart" /\ requests[2].text = "Remove Oud Royale"
    /\ requests[2].call.ret.ok
    /\ CARTS["u1"] = <<>>
    /\ before["u2"] # <<>>

\* C21: a request that ends with the "technical difficulties" apology, because
\* the Planner's call, the Actor or the Responder's call raised, leaves the
\* cart store exactly as it was before the request: no add, update, removal
\* or clearing by checkout takes effect for a message whose processing failed.
C21_FailedRequestKeepsStore ==
    [][\A i \in Slots :
          (/\ requests[i].at = "awaiting" /\ requests'[i].at = "done"
           /\ requests'[i].error.exc # ""
           /\ requests'[i].reply = Apology) => CARTS' = CARTS]_vars
====
